---- MODULE Spec2Model ----
(***************************************************************************)
(* The exploration pipeline of the potential-minigrid explorer:            *)
(*   app/explorations/api.py     start_new_exploration,                    *)
(*                               stop_current_exploration                  *)
(*   app/explorations/domain.py  worker_exploration and its four workers   *)
(*                                                                         *)
(* The store is the PostgreSQL database (READ COMMITTED): every query and  *)
(* every commit is one atomic step.  Each worker owns a SQLAlchemy session *)
(* with expire_on_commit: an attribute of a loaded object is served from   *)
(* the session until the session commits, and is re-read from the store on *)
(* the first access after a commit.  A worker's loaded Exploration row is  *)
(* the record "cache" below; a polling loop that changes nothing is a      *)
(* disabled action.                                                        *)
(***************************************************************************)
EXTENDS Integers, Sequences, FiniteSets, TLC

\* ---- bounds of the model ------------------------------------------------
\* Clusters returned by the clustering step.
MaxClusters == 2
\* Clusters returned by the clustering step in the runs that fill every slot.
SlotClusters == 4
\* Failed submits in the runs that fill every slot (their polls return no ERROR).
SlotFailures == 1
\* Polls answered PENDING in the runs that fill every slot.
SlotPendings == 1
\* Exploration rows the store can hold.
MaxExplorations == 2
\* Start and stop requests issued when the request handlers race.
ApiStarts == 3
ApiStops == 3
\* Start requests, clusters and failed submits in the runs where an exploration
\* follows another, and the stop requests of the client that stops what it started.
RestartStarts == 2
RestartClusters == 2
RestartFailures == 1
ClientStops == 2
\* Clusters and failed submits in the fairly scheduled runs with a duplicate
\* cluster_id.
DupClusters == 2
DupFailures == 1
\* Clusters, failed submits and timed-out requests in the runs with a request
\* that times out on every attempt.
TimeoutClusters == 2
TimeoutFailures == 1
Timeouts == 1

\* Start requests, stop requests, clusters and failed submits in the runs where a
\* stopped exploration's Cluster Finder is still running beside the next exploration.
OverlapStarts == 2
OverlapStops == 1
OverlapClusters == 2
OverlapFailures == 1

\* Clusters and failed submits in the fairly scheduled runs.
FairClusters == 2
FairFailures == 1

\* ---- program constants --------------------------------------------------
NUM_SLOTS == 3
CLUSTERS_FOUND == 50

NoneVal == -1

ExpIds == 1..MaxExplorations
ClusterIdx == 1..(IF MaxClusters > SlotClusters THEN MaxClusters ELSE SlotClusters)
SimIds == ExpIds \X ClusterIdx
SlotIdx == 1..NUM_SLOTS

ExplorationStatus == {"RUNNING", "FINISHED", "ERROR", "STOPPED"}
SimulationStatus ==
  {"PENDING", "RUNNING", "FINISHED", "STOPPED", "ERROR", "PROCESSED_ERROR", "PROCESSED"}
RequestStatus == {"PENDING", "DONE", "ERROR"}

VARIABLES
  scn,        \* the scenario: request budgets, the clustering step's output range,
              \* the gateway's failure budgets, the store's row order
  exps,       \* table exploration
  sims,       \* table simulation, keyed by <<exploration, position in the clustering result>>
  clusters,   \* table cluster, keyed likewise (the row has no exploration column)
  startReq,   \* start requests in flight: how many have passed the check / the delete
  stopReq,    \* stop requests that have passed their check, per exploration
  orch,       \* worker_exploration thread, per exploration
  cf,         \* WorkerFindClusters thread
  ig,         \* WorkerGenerateOptimizerInputs thread
  sch,        \* WorkerRunOptimizer thread
  rp,         \* WorkerProcessSimulationResults thread
  obs         \* observations for the properties (history, never read by the program)

vars == <<scn, exps, sims, clusters, startReq, stopReq, orch, cf, ig, sch, rp, obs>>

\* ---- rows ----------------------------------------------------------------
NoExploration ==
  [status |-> "NONE", minigrids_found |-> NoneVal, clusters_found |-> NoneVal,
   clusters_found_at |-> FALSE, optimizer_inputs_generated_at |-> FALSE,
   optimizer_finished_at |-> FALSE]

Exploration ==
  [NoExploration EXCEPT !.status = "RUNNING"]

NoSimulation ==
  [status |-> "NONE", cluster_id |-> NoneVal, grid_input |-> FALSE,
   supply_input |-> FALSE, grid_results |-> FALSE,
   supply_results |-> FALSE, project_input |-> FALSE]

\* Simulation(exploration_id, cluster_id, grid_input, supply_input): status PENDING.
Simulation(cid) ==
  [NoSimulation EXCEPT !.status = "PENDING", !.cluster_id = cid,
                       !.grid_input = TRUE, !.supply_input = TRUE]

NoCluster == [cluster_id |-> NoneVal, results |-> 0]

Cluster(cid) == [cluster_id |-> cid, results |-> 0]

\* ---- the session's copy of the Exploration row ---------------------------
Expired == [valid |-> FALSE, status |-> "NONE", minigrids_found |-> NoneVal]

Loaded(e) ==
  [valid |-> TRUE, status |-> exps[e].status, minigrids_found |-> exps[e].minigrids_found]

\* Attribute access on db_exploration: the loaded value, or a reload after a commit.
Fresh(c, e) == IF c.valid THEN c ELSE Loaded(e)

\* ---- queries --------------------------------------------------------------
SimsOf(e) == {s \in SimIds : s[1] = e /\ sims[s].status # "NONE"}

SimsWithStatus(e, sts) == {s \in SimsOf(e) : sims[s].status \in sts}

\* The query that also finds the explorations a stop request has stopped.
UnfinishedExplorations == {e \in ExpIds : exps[e].status \in {"RUNNING", "STOPPED"}}

RunningExplorations == {e \in ExpIds : exps[e].status = "RUNNING"}

Created(e) == exps[e].status # "NONE"

\* The id the next inserted Exploration gets (0: the model's store is full).
NextExplorationId ==
  IF \E e \in ExpIds : ~Created(e)
  THEN CHOOSE e \in ExpIds : ~Created(e) /\ \A f \in ExpIds : f < e => Created(f)
  ELSE 0

Min(a, b) == IF a < b THEN a ELSE b

\* The subsets a SELECT ... LIMIT n without ORDER BY can return: any n rows, or
\* (scn.ordered) the n oldest rows, as a store that scans in insertion order does.
Limit(S, n) ==
  {T \in SUBSET S :
     /\ Cardinality(T) = Min(n, Cardinality(S))
     /\ scn.ordered => \A x \in T, y \in S \ T : x[2] < y[2]}

RECURSIVE SetToSeq(_)
SetToSeq(S) ==
  IF S = {} THEN <<>>
  ELSE LET m == CHOOSE x \in S : \A y \in S : x[2] <= y[2]
       IN <<m>> \o SetToSeq(S \ {m})

\* A slot of the Scheduler: (simulation id | None, grid checker | None, supply
\* checker | None), and the status the session holds for the slot's Simulation.
SlotEmpty == [id |-> 0, g |-> FALSE, s |-> FALSE, st |-> "EXPIRED"]

\* ---- initial state ---------------------------------------------------------
InitWith(s) ==
  /\ scn = s
  /\ exps = [e \in ExpIds |-> NoExploration]
  /\ sims = [s2 \in SimIds |-> NoSimulation]
  /\ clusters = [c \in SimIds |-> NoCluster]
  /\ startReq = [idle |-> s.starts, checked |-> 0, deleted |-> 0]
  /\ stopReq = [left |-> s.stops, target |-> 0, passed |-> {}]
  /\ orch = [e \in ExpIds |-> [pc |-> "none", final |-> "NONE"]]
  /\ cf = [e \in ExpIds |-> [pc |-> "idle", cache |-> Expired, n |-> 0, dup |-> FALSE,
                             i |-> 0, result |-> FALSE]]
  /\ ig = [e \in ExpIds |-> [pc |-> "idle", cache |-> Expired, i |-> 0]]
  /\ sch = [e \in ExpIds |->
              [pc |-> "idle", cache |-> Expired,
               slots |-> [j \in SlotIdx |-> SlotEmpty],
               executed_simulations |-> 0, last_bucket |-> FALSE,
               db_simulations |-> <<>>, db_simulation |-> 0, i |-> 1, dirty |-> {}]]
  /\ rp = [e \in ExpIds |-> [pc |-> "idle", cache |-> Expired, num_processed |-> 0,
                             todo |-> {}]]
  /\ obs = [stopped |-> {}, inflight |-> {}, conflicts |-> 0, open |-> {},
            passed |-> {}, late |-> {}, unchecked |-> {}, rewritten |-> {},
            refused |-> {}, submitted |-> {}, resubmitted |-> {}]

\* One start request, one stop request, the clustering step returns 0..MaxClusters
\* clusters with distinct cluster_id.
Init ==
  InitWith([starts |-> 1, stops |-> 1, maxCl |-> MaxClusters, dup |-> FALSE,
            submit_errors |-> NoneVal, poll_errors |-> NoneVal,
            pending_polls |-> NoneVal, timeouts |-> 0,
            ordered |-> FALSE, sequential |-> FALSE])

\* ---- explorations/api.py ---------------------------------------------------
\* The check that never raises.
ConflictNever == FALSE

\* if db_exploration_running: raise HTTPException(409)
Conflict == RunningExplorations # {}

\* The client of tests/scripts/create_and_stop_many_explorations.py (scn.sequential)
\* sends one request at a time: a start, then a stop for the id the start returned.
ClientIdle ==
  /\ startReq.checked = 0
  /\ startReq.deleted = 0
  /\ stopReq.passed = {}
  /\ stopReq.target = 0

\* start_new_exploration, first store operation: the query for a RUNNING exploration.
StartCheck ==
  /\ startReq.idle > 0
  /\ scn.sequential => ClientIdle
  /\ RunningExplorations = {} =>
       Cardinality({e \in ExpIds : ~Created(e)}) > startReq.checked + startReq.deleted
  /\ IF Conflict
     THEN /\ startReq' = [startReq EXCEPT !.idle = @ - 1]
          /\ obs' = [obs EXCEPT !.conflicts = Min(@ + 1, 1)]
     ELSE /\ startReq' = [startReq EXCEPT !.idle = @ - 1, !.checked = @ + 1]
          /\ obs' = obs
  /\ UNCHANGED <<scn, exps, sims, clusters, stopReq, orch, cf, ig, sch, rp>>

\* start_new_exploration, second store operation: delete every Cluster and Simulation.
StartDelete ==
  /\ startReq.checked > 0
  /\ startReq' = [startReq EXCEPT !.checked = @ - 1, !.deleted = @ + 1]
  /\ clusters' = [c \in SimIds |-> NoCluster]
  /\ sims' = [s \in SimIds |-> NoSimulation]
  /\ UNCHANGED <<scn, exps, stopReq, orch, cf, ig, sch, rp, obs>>

\* start_exploration: insert the Exploration as RUNNING and start its thread.
start_exploration ==
  /\ startReq.deleted > 0
  /\ NextExplorationId # 0
  /\ LET e == NextExplorationId IN
       /\ exps' = [exps EXCEPT ![e] = Exploration]
       /\ orch' = [orch EXCEPT ![e].pc = "start"]
  /\ startReq' = [startReq EXCEPT !.deleted = @ - 1]
  /\ stopReq' = [stopReq EXCEPT !.target = IF scn.sequential THEN NextExplorationId ELSE @]
  /\ UNCHANGED <<scn, sims, clusters, cf, ig, sch, rp, obs>>

\* The lookup that only tests whether the row exists.
StoppableIfFound(e) == Created(e)

\* Neither HTTPException is raised: the row exists and its status is RUNNING.
Stoppable(e) == exps[e].status = "RUNNING"

\* stop_current_exploration: the lookup and the two rejections (404, 409);
\* obs.refused keeps the statuses the refused requests have met (NONE: no row).
StopCheck(e) ==
  /\ stopReq.left > 0
  /\ scn.sequential => e = stopReq.target
  /\ stopReq' = [left |-> stopReq.left - 1, target |-> 0,
                 passed |-> IF Stoppable(e)
                            THEN stopReq.passed \cup {e} ELSE stopReq.passed]
  /\ obs' = [obs EXCEPT !.refused = IF Stoppable(e) THEN @ ELSE @ \cup {exps[e].status}]
  /\ UNCHANGED <<scn, exps, sims, clusters, startReq, orch, cf, ig, sch, rp>>

\* stop_exploration (imported by api.py from domain.py, which does not define it):
\* a stop request sets Exploration.status = STOPPED.
stop_exploration(e) ==
  /\ e \in stopReq.passed
  /\ stopReq' = [stopReq EXCEPT !.passed = @ \ {e}]
  /\ exps' = [exps EXCEPT ![e].status = "STOPPED"]
  /\ obs' = [obs EXCEPT !.stopped = @ \cup {e},
                        !.inflight = IF \E j \in SlotIdx : sch[e].slots[j].id # 0
                                     THEN @ \cup {e} ELSE @]
  /\ UNCHANGED <<scn, sims, clusters, startReq, orch, cf, ig, sch, rp>>

\* get_exploration_progress: the counts it derives from the Simulation rows of
\* exploration e that it reads in one query.
num_calculated(e) == Cardinality(SimsWithStatus(e, {"PROCESSED"}))

num_aborted(e) == Cardinality(SimsWithStatus(e, {"ERROR", "STOPPED"}))

minigrids_analyzed(e) == num_calculated(e) + num_aborted(e)

\* ---- worker_exploration (the orchestrator thread) ---------------------------
\* A join that does not wait.
EndedOrNot(w) == TRUE

\* thread.join() comes back: the thread's call returned or raised.
Ended(w) == w.pc \in {"done", "dead"}

OrchStartClusters(e) ==
  /\ orch[e].pc = "start"
  /\ orch' = [orch EXCEPT ![e].pc = "join_clusters"]
  /\ cf' = [cf EXCEPT ![e].pc = "get"]
  /\ UNCHANGED <<scn, exps, sims, clusters, startReq, stopReq, ig, sch, rp, obs>>

\* thread_clusters.join(); assert clustering_result; stamp clusters_found_at.
OrchAfterClusters(e) ==
  /\ orch[e].pc = "join_clusters"
  /\ Ended(cf[e])
  /\ IF cf[e].result
     THEN /\ exps' = [exps EXCEPT ![e].clusters_found_at = TRUE]
          /\ orch' = [orch EXCEPT ![e].pc = "spawn"]
     ELSE /\ exps' = exps
          /\ orch' = [orch EXCEPT ![e].pc = "dead"]
  /\ UNCHANGED <<scn, sims, clusters, startReq, stopReq, cf, ig, sch, rp, obs>>

\* The three worker threads are started.
OrchSpawn(e) ==
  /\ orch[e].pc = "spawn"
  /\ orch' = [orch EXCEPT ![e].pc = "join_inputs"]
  /\ ig' = [ig EXCEPT ![e].pc = "get"]
  /\ sch' = [sch EXCEPT ![e].pc = "get"]
  /\ rp' = [rp EXCEPT ![e].pc = "get"]
  /\ UNCHANGED <<scn, exps, sims, clusters, startReq, stopReq, cf, obs>>

OrchJoinInputs(e) ==
  /\ orch[e].pc = "join_inputs"
  /\ Ended(ig[e])
  /\ exps' = [exps EXCEPT ![e].optimizer_inputs_generated_at = TRUE]
  /\ orch' = [orch EXCEPT ![e].pc = "join_optimizer"]
  /\ UNCHANGED <<scn, sims, clusters, startReq, stopReq, cf, ig, sch, rp, obs>>

OrchJoinOptimizer(e) ==
  /\ orch[e].pc = "join_optimizer"
  /\ Ended(sch[e])
  /\ exps' = [exps EXCEPT ![e].optimizer_finished_at = TRUE]
  /\ orch' = [orch EXCEPT ![e].pc = "join_results"]
  /\ UNCHANGED <<scn, sims, clusters, startReq, stopReq, cf, ig, sch, rp, obs>>

\* The status the orchestrator derives from the Simulation rows it reads.
FinalStatus(e) ==
  IF \A s \in SimsOf(e) : sims[s].status = "PROCESSED_ERROR" THEN "ERROR" ELSE "FINISHED"

\* The final query without the join of the Result Processor.
OrchJoinResultsNoWait(e) ==
  /\ orch[e].pc = "join_results"
  /\ orch' = [orch EXCEPT ![e] = [pc |-> "final", final |-> FinalStatus(e)]]
  /\ UNCHANGED <<scn, exps, sims, clusters, startReq, stopReq, cf, ig, sch, rp, obs>>

\* thread_results.join() and the query over the exploration's simulations.
OrchJoinResults(e) ==
  /\ orch[e].pc = "join_results"
  /\ Ended(rp[e])
  /\ orch' = [orch EXCEPT ![e] = [pc |-> "final", final |-> FinalStatus(e)]]
  /\ UNCHANGED <<scn, exps, sims, clusters, startReq, stopReq, cf, ig, sch, rp, obs>>

\* db_exploration.status = ...; commit: the status column is written whatever it holds.
OrchFinal(e) ==
  /\ orch[e].pc = "final"
  /\ exps' = [exps EXCEPT ![e].status = orch[e].final]
  /\ orch' = [orch EXCEPT ![e].pc = "done"]
  /\ UNCHANGED <<scn, sims, clusters, startReq, stopReq, cf, ig, sch, rp, obs>>

\* ---- WorkerFindClusters -----------------------------------------------------
\* cluster_id of the k-th cluster of exploration e's clustering result.
ClusterIdAt(e, k) == IF cf[e].dup /\ k = cf[e].n THEN 0 ELSE k - 1

\* Load the Exploration; the clustering step's output size is an input.
CFGet(e) ==
  /\ cf[e].pc = "get"
  /\ \E n \in 0..scn.maxCl, d \in BOOLEAN :
       /\ d => (scn.dup /\ n >= 2)
       /\ cf' = [cf EXCEPT ![e] =
                   IF exps[e].status = "STOPPED"
                   THEN [@ EXCEPT !.pc = "done", !.result = FALSE]
                   ELSE [@ EXCEPT !.pc = IF n = 0 THEN "done" ELSE "loop",
                                  !.cache = Loaded(e), !.n = n, !.dup = d, !.i = 0,
                                  !.result = TRUE]]
  /\ UNCHANGED <<scn, exps, sims, clusters, startReq, stopReq, orch, ig, sch, rp, obs>>

\* One pass of the loop: the STOPPED check, then the Cluster insert and commit.
CFIter(e) ==
  /\ cf[e].pc = "loop"
  /\ LET c == Fresh(cf[e].cache, e)
         k == cf[e].i + 1
     IN IF c.status = "STOPPED"
        THEN /\ cf' = [cf EXCEPT ![e].pc = "done", ![e].result = FALSE, ![e].cache = c]
             /\ clusters' = clusters
        ELSE /\ clusters' = [clusters EXCEPT ![<<e, k>>] = Cluster(ClusterIdAt(e, k))]
             /\ cf' = [cf EXCEPT ![e].i = k, ![e].cache = Expired,
                                 ![e].pc = IF k = cf[e].n THEN "done" ELSE "loop"]
  /\ UNCHANGED <<scn, exps, sims, startReq, stopReq, orch, ig, sch, rp, obs>>

\* ---- WorkerGenerateOptimizerInputs -------------------------------------------
\* The store's insert of a Simulation under uc_exploration_id_cluster_id:
\* the rows after the insert, or the rows unchanged when the pair exists.
PairExists(e, cid) == \E s \in SimsOf(e) : sims[s].cluster_id = cid

\* The insert without the unique constraint on (exploration_id, cluster_id).
CreateSimulationUnconstrained(s, cid) == [sims EXCEPT ![s] = Simulation(cid)]

\* session.add(Simulation(...)); commit() under the unique constraint on
\* (exploration_id, cluster_id): a duplicate pair leaves the table as it is.
CreateSimulation(s, cid) ==
  IF PairExists(s[1], cid) THEN sims ELSE [sims EXCEPT ![s] = Simulation(cid)]

\* minigrids_found left as the row was created.
MinigridsFoundUnset(e) == NoneVal

\* clusters_found, written where minigrids_found belongs.
MinigridsFoundAsClusters(e) == CLUSTERS_FOUND

\* len(self._clustering_result.potential_minigrids)
MinigridsFound(e) == cf[e].n

\* Load, write clusters_found and minigrids_found, commit, refresh.
IGGet(e) ==
  /\ ig[e].pc = "get"
  /\ exps' = [exps EXCEPT ![e].clusters_found = CLUSTERS_FOUND,
                          ![e].minigrids_found = MinigridsFound(e)]
  /\ ig' = [ig EXCEPT ![e] =
              [pc |-> IF exps[e].status = "STOPPED" \/ cf[e].n = 0 THEN "done" ELSE "loop",
               cache |-> [valid |-> TRUE, status |-> exps[e].status,
                          minigrids_found |-> MinigridsFound(e)],
               i |-> 0]]
  /\ UNCHANGED <<scn, sims, clusters, startReq, stopReq, orch, cf, sch, rp, obs>>

\* One pass of the loop: the STOPPED check, then the Simulation insert and commit;
\* a constraint violation ends the thread.
IGIter(e) ==
  /\ ig[e].pc = "loop"
  /\ LET c == Fresh(ig[e].cache, e)
         k == ig[e].i + 1
     IN IF c.status = "STOPPED"
        THEN /\ ig' = [ig EXCEPT ![e].pc = "done", ![e].cache = c]
             /\ sims' = sims
        ELSE /\ sims' = CreateSimulation(<<e, k>>, ClusterIdAt(e, k))
             /\ ig' = [ig EXCEPT ![e].i = k, ![e].cache = Expired,
                                 ![e].pc = IF PairExists(e, ClusterIdAt(e, k)) THEN "dead"
                                           ELSE IF k = cf[e].n THEN "done" ELSE "loop"]
  /\ UNCHANGED <<scn, exps, clusters, startReq, stopReq, orch, cf, sch, rp, obs>>

\* ---- the optimizer gateway ------------------------------------------------------
\* optimize_grid / optimize_supply return a checker or an ErrorServiceOffgridPlanner,
\* a checker returns PENDING, DONE or an error: the outcome is the service's choice.
\* scn.submit_errors and scn.poll_errors bound the failures of a scenario and
\* scn.pending_polls the polls answered PENDING (NoneVal: no bound).
MaySubmitFail == scn.submit_errors # 0

MayPollFail == scn.poll_errors # 0

ChargedSubmit(failed) ==
  IF failed /\ scn.submit_errors # NoneVal THEN [scn EXCEPT !.submit_errors = @ - 1]
  ELSE scn

MayPollPending == scn.pending_polls # 0

ChargedPoll(failed) ==
  IF failed /\ scn.poll_errors # NoneVal THEN [scn EXCEPT !.poll_errors = @ - 1]
  ELSE scn

ChargedPending(s, pending) ==
  IF pending /\ s.pending_polls # NoneVal THEN [s EXCEPT !.pending_polls = @ - 1]
  ELSE s

\* retry_request re-raises httpx.TimeoutException after its last attempt; neither
\* try block of _send_input_to_optimizer catches it, and nothing in the Scheduler
\* does: the exception ends the thread before the write that would follow the call.
\* scn.timeouts bounds the requests that time out five times in a row.
MayTimeout == scn.timeouts # 0

TimedOut(e) ==
  /\ sch' = [sch EXCEPT ![e].pc = "dead"]
  /\ scn' = [scn EXCEPT !.timeouts = @ - 1]
  /\ UNCHANGED <<sims, obs>>

\* What a call of a checker comes to: a RequestStatus, or the escaped timeout.
PollOutcome == RequestStatus \cup {"TIMEOUT"}

\* ---- WorkerRunOptimizer (the Scheduler) -------------------------------------
\* db_simulation.id in [s[0] for s in slots]
InSlot(e, s) == \E j \in SlotIdx : sch[e].slots[j].id = s[2]

\* The query whose status filter also takes the simulations marked ERROR.
PendingViewOrError(e) == SimsWithStatus(e, {"PENDING", "ERROR"}) \ sch[e].dirty

\* PENDING simulations as the Scheduler's session sees them: its own uncommitted
\* status writes are flushed before each of its queries.
PendingView(e) == SimsWithStatus(e, {"PENDING"}) \ sch[e].dirty

\* commit(): the session's pending status = RUNNING writes reach the store.
Flushed(e) ==
  [s \in SimIds |-> IF s \in sch[e].dirty THEN [sims[s] EXCEPT !.status = "RUNNING"]
                    ELSE sims[s]]

\* A row the session has to UPDATE or refresh is gone.
RowGone(e, s) == \E d \in sch[e].dirty \cup {s} : sims[d].status = "NONE"

\* expire_on_commit for the Simulation objects of the slots.
ExpireSlots(sl) == [j \in SlotIdx |-> IF sl[j].id = 0 THEN sl[j] ELSE [sl[j] EXCEPT !.st = "EXPIRED"]]

AllEmpty(sl) == \A j \in SlotIdx : sl[j].id = 0

\* The refill test without the test of the slot being empty.
RefillSlotOccupied(slot, last_bucket) == ~last_bucket

\* if not minigrid_id and not last_bucket
RefillSlot(slot, last_bucket) == slot.id = 0 /\ ~last_bucket

\* The Simulation object of id is referenced by the thread (the list db_simulations
\* or the variable db_simulation), so the session's identity map still holds it.
Held(e, id) ==
  \/ sch[e].db_simulation = id
  \/ \E k \in 1..Len(sch[e].db_simulations) : sch[e].db_simulations[k][2] = id

\* The checker objects (poll handles) a submission of simulation s returns.
Handles(s) == {<<s, "grid">>, <<s, "supply">>}

\* A STOPPED check that read RUNNING from the session while the store says STOPPED.
StalePass(e, c) == exps[e].status = "STOPPED" /\ c.status # "STOPPED"

ObsCheck(e, c) == IF StalePass(e, c) THEN obs.passed \cup {e} ELSE obs.passed

ObsLate(e, passed) == IF e \in passed THEN obs.late \cup {e} ELSE obs.late

SchedGet(e) ==
  /\ sch[e].pc = "get"
  /\ sch' = [sch EXCEPT ![e].pc = "wait", ![e].cache = Loaded(e)]
  /\ UNCHANGED <<scn, exps, sims, clusters, startReq, stopReq, orch, cf, ig, rp, obs>>

\* The wait loop ends on a PENDING simulation or on a STOPPED status in the session;
\* then the STOPPED test on the same session value.
SchedWait(e) ==
  /\ sch[e].pc = "wait"
  /\ PendingView(e) = {} => sch[e].cache.status = "STOPPED"
  /\ sch' = [sch EXCEPT ![e].pc = IF sch[e].cache.status = "STOPPED" THEN "done" ELSE "start"]
  /\ UNCHANGED <<scn, exps, sims, clusters, startReq, stopReq, orch, cf, ig, rp, obs>>

\* db_simulations = exec(statement.limit(NUM_SLOTS)).all()
SchedStartupQuery(e) ==
  /\ sch[e].pc = "start"
  /\ \E T \in Limit(PendingView(e), NUM_SLOTS) :
       sch' = [sch EXCEPT ![e].pc = "startup", ![e].db_simulations = SetToSeq(T),
                          ![e].i = 1, ![e].executed_simulations = 0,
                          ![e].last_bucket = FALSE]
  /\ UNCHANGED <<scn, exps, sims, clusters, startReq, stopReq, orch, cf, ig, rp, obs>>

\* optimize_grid(grid_input) and optimize_supply(supply_input) are called for
\* simulation s: obs.submitted keeps the simulations sent to the gateway,
\* obs.resubmitted those sent a second time.
ObsSubmit(o, s) ==
  [o EXCEPT !.submitted = @ \cup {s},
            !.resubmitted = IF s \in o.submitted THEN @ \cup {s} ELSE @]

\* Submit simulation s for slot j (startup fill and single-slot refill): the STOPPED
\* check, both gateway submits, status = RUNNING committed; on success the slot is
\* filled, on a submit error the thread goes on to write ERROR (errpc).
SubmitCommitted(e, s, j, errpc) ==
  LET c == Fresh(sch[e].cache, e) IN
  IF c.status = "STOPPED"
  THEN /\ sch' = [sch EXCEPT ![e].pc = "done", ![e].cache = c]
       /\ UNCHANGED <<sims, obs, scn>>
  ELSE \E okG, okS, raised \in BOOLEAN :
         /\ ~(okG /\ okS) => MaySubmitFail
         /\ raised => (MayTimeout /\ okG /\ okS)
         /\ IF raised
            THEN TimedOut(e)
            ELSE IF RowGone(e, s)
            THEN /\ sch' = [sch EXCEPT ![e].pc = "dead", ![e].cache = c]
                 /\ scn' = ChargedSubmit(~(okG /\ okS))
                 /\ obs' = ObsSubmit(obs, s)
                 /\ sims' = sims
            ELSE
              /\ scn' = ChargedSubmit(~(okG /\ okS))
              /\ sims' = [Flushed(e) EXCEPT ![s].status = "RUNNING"]
              /\ obs' = [ObsSubmit(obs, s) EXCEPT
                           !.passed = ObsCheck(e, c),
                           !.late = ObsLate(e, ObsCheck(e, c)),
                           !.open = @ \cup {h \in Handles(s) :
                                                IF h[2] = "grid" THEN okG ELSE okS}]
              /\ sch' = [sch EXCEPT
                           ![e].cache = Expired, ![e].dirty = {},
                           ![e].db_simulation = s[2],
                           ![e].pc = IF okG /\ okS THEN @ ELSE errpc,
                           ![e].i = IF okG /\ okS THEN @ + 1 ELSE @,
                           ![e].slots =
                              IF okG /\ okS
                              THEN [ExpireSlots(@) EXCEPT
                                      ![j] = [id |-> s[2], g |-> TRUE, s |-> TRUE,
                                              st |-> "RUNNING"]]
                              ELSE ExpireSlots(@)]

\* The ERROR write without the count of the simulation.
SubmitErrorUncounted(e, s, nextpc) ==
  IF RowGone(e, s)
  THEN /\ sch' = [sch EXCEPT ![e].pc = "dead"]
       /\ UNCHANGED <<sims, obs>>
  ELSE /\ sims' = [Flushed(e) EXCEPT ![s].status = "ERROR"]
       /\ obs' = [obs EXCEPT !.open = @ \ Handles(s)]
       /\ sch' = [sch EXCEPT ![e].pc = nextpc, ![e].cache = Expired, ![e].dirty = {},
                             ![e].slots = ExpireSlots(@), ![e].i = @ + 1]

\* The ERROR write that follows a failed submit, and executed_simulations += 1; the
\* checker the other submit may have returned is dropped.
SubmitError(e, s, nextpc) ==
  IF RowGone(e, s)
  THEN /\ sch' = [sch EXCEPT ![e].pc = "dead"]
       /\ UNCHANGED <<sims, obs>>
  ELSE /\ sims' = [Flushed(e) EXCEPT ![s].status = "ERROR"]
       /\ obs' = [obs EXCEPT !.open = @ \ Handles(s)]
       /\ sch' = [sch EXCEPT ![e].pc = nextpc, ![e].cache = Expired, ![e].dirty = {},
                             ![e].slots = ExpireSlots(@), ![e].i = @ + 1,
                             ![e].executed_simulations = @ + 1]

SchedStartup(e) ==
  /\ sch[e].pc = "startup"
  /\ sch[e].i <= Len(sch[e].db_simulations)
  /\ SubmitCommitted(e, sch[e].db_simulations[sch[e].i], sch[e].i, "startup_err")
  /\ UNCHANGED <<exps, clusters, startReq, stopReq, orch, cf, ig, rp>>

SchedStartupErr(e) ==
  /\ sch[e].pc = "startup_err"
  /\ SubmitError(e, <<e, sch[e].db_simulation>>, "startup")
  /\ UNCHANGED <<scn, exps, clusters, startReq, stopReq, orch, cf, ig, rp>>

\* if not db_exploration.minigrids_found: raise RuntimeError
SchedMfCheck(e) ==
  /\ sch[e].pc = "startup"
  /\ sch[e].i > Len(sch[e].db_simulations)
  /\ LET c == Fresh(sch[e].cache, e) IN
       sch' = [sch EXCEPT ![e].cache = c,
                          ![e].pc = IF c.minigrids_found <= 0 THEN "dead" ELSE "loop"]
  /\ UNCHANGED <<scn, exps, sims, clusters, startReq, stopReq, orch, cf, ig, rp, obs>>

\* The loop condition without its count of executed simulations.
RemainingNever(e, c) == FALSE

\* executed_simulations < db_exploration.minigrids_found
Remaining(e, c) == sch[e].executed_simulations < c.minigrids_found

\* while (not all slots empty) or (executed < minigrids_found and not STOPPED)
SchedLoop(e) ==
  /\ sch[e].pc = "loop"
  /\ LET c == IF AllEmpty(sch[e].slots) THEN Fresh(sch[e].cache, e) ELSE sch[e].cache
         go == AllEmpty(sch[e].slots) => (Remaining(e, c) /\ c.status # "STOPPED")
     IN /\ sch' = [sch EXCEPT ![e].cache = c, ![e].i = 1,
                              ![e].pc = IF go THEN "visit" ELSE "done"]
        /\ obs' = [obs EXCEPT !.passed = IF AllEmpty(sch[e].slots) /\ go
                                         THEN ObsCheck(e, c) ELSE @]
  /\ UNCHANGED <<scn, exps, sims, clusters, startReq, stopReq, orch, cf, ig, rp>>

\* The query returned no row, or a row that is in a slot already: the visit ends
\* after the STOPPED check.
NothingToRefill(e, id) ==
  LET c == Fresh(sch[e].cache, e) IN
    /\ sch' = [sch EXCEPT ![e].cache = c, ![e].db_simulation = id,
                          ![e].pc = IF c.status = "STOPPED" THEN "done" ELSE @,
                          ![e].i = IF c.status = "STOPPED" THEN @ ELSE @ + 1]
    /\ obs' = [obs EXCEPT !.passed = ObsCheck(e, c)]
    /\ UNCHANGED <<sims, scn>>

\* A visit of an empty slot while the single-slot refill is on: the STOPPED check,
\* the query for one PENDING simulation, the test that it is in no slot, and its
\* submission.
SchedVisitRefill(e) ==
  /\ sch[e].pc = "visit"
  /\ sch[e].i <= NUM_SLOTS
  /\ RefillSlot(sch[e].slots[sch[e].i], sch[e].last_bucket)
  /\ IF PendingView(e) = {}
     THEN NothingToRefill(e, 0)
     ELSE \E T \in Limit(PendingView(e), 1) : \E s \in T :
            IF InSlot(e, s)
            THEN NothingToRefill(e, s[2])
            ELSE SubmitCommitted(e, s, sch[e].i, "refill_err")
  /\ UNCHANGED <<exps, clusters, startReq, stopReq, orch, cf, ig, rp>>

SchedRefillErr(e) ==
  /\ sch[e].pc = "refill_err"
  /\ SubmitError(e, <<e, sch[e].db_simulation>>, "visit")
  /\ UNCHANGED <<scn, exps, clusters, startReq, stopReq, orch, cf, ig, rp>>

\* A visit of an empty slot in the last bucket: the STOPPED check, then continue.
SchedVisitSkip(e) ==
  /\ sch[e].pc = "visit"
  /\ sch[e].i <= NUM_SLOTS
  /\ sch[e].slots[sch[e].i].id = 0
  /\ ~RefillSlot(sch[e].slots[sch[e].i], sch[e].last_bucket)
  /\ LET c == Fresh(sch[e].cache, e) IN
       /\ sch' = [sch EXCEPT ![e].cache = c,
                             ![e].pc = IF c.status = "STOPPED" THEN "done" ELSE @,
                             ![e].i = IF c.status = "STOPPED" THEN @ ELSE @ + 1]
       /\ obs' = [obs EXCEPT !.passed = ObsCheck(e, c)]
  /\ UNCHANGED <<scn, exps, sims, clusters, startReq, stopReq, orch, cf, ig, rp>>

\* The poll results after which the checker is set to None.
ResolvedOnError(r) == r = "ERROR"

\* checker_grid = None / checker_supply = None: after an error and after DONE.
Resolved(r) == r # "PENDING"

\* The slot taken as finished as soon as one of its handles is gone.
AfterPollEither(g, s, supplyNext) ==
  IF supplyNext /\ s THEN "poll_supply" ELSE IF ~g \/ ~s THEN "finish" ELSE "visit"

\* The visit that never empties the slot.
AfterPollStays(g, s, supplyNext) ==
  IF supplyNext /\ s THEN "poll_supply" ELSE "visit"

\* Where the visit of slot j goes once handle g and handle s are as given.
AfterPoll(g, s, supplyNext) ==
  IF supplyNext /\ s THEN "poll_supply" ELSE IF ~g /\ ~s THEN "finish" ELSE "visit"

\* The outcome r of a poll of the handle `kind` of slot j, whose Simulation the
\* session holds with status st: on ERROR the status is set to ERROR (an UPDATE only
\* if the session's value differs), on DONE the result column is written; either
\* commits, refreshes the Simulation and drops this handle only.
Polled(e, j, kind, r, st, c, passed, supplyNext) ==
  LET slot == sch[e].slots[j]
      s == <<e, slot.id>>
      g2 == IF kind = "grid" /\ Resolved(r) THEN FALSE ELSE slot.g
      s2 == IF kind = "supply" /\ Resolved(r) THEN FALSE ELSE slot.s
      held == IF kind = "grid" THEN sims[s].grid_results ELSE sims[s].supply_results
      next == AfterPoll(g2, s2, supplyNext)
      row == IF r = "ERROR" /\ st # "ERROR" THEN [Flushed(e)[s] EXCEPT !.status = "ERROR"]
             ELSE IF r = "DONE" /\ kind = "grid"
                  THEN [Flushed(e)[s] EXCEPT !.grid_results = TRUE]
             ELSE IF r = "DONE" THEN [Flushed(e)[s] EXCEPT !.supply_results = TRUE]
             ELSE Flushed(e)[s]
  IN IF r = "PENDING"
     THEN /\ sch' = [sch EXCEPT ![e].cache = c, ![e].slots[j].st = st, ![e].pc = next,
                                ![e].db_simulation = slot.id,
                                ![e].i = IF next = "visit" THEN @ + 1 ELSE @]
          /\ obs' = [obs EXCEPT !.passed = passed]
          /\ sims' = sims
     ELSE IF RowGone(e, s)
     THEN /\ sch' = [sch EXCEPT ![e].pc = "dead", ![e].cache = c]
          /\ UNCHANGED <<sims, obs>>
     ELSE /\ sims' = [Flushed(e) EXCEPT ![s] = row]
          /\ sch' = [sch EXCEPT
                       ![e].cache = Expired, ![e].dirty = {}, ![e].pc = next,
                       ![e].db_simulation = slot.id,
                       ![e].i = IF next = "visit" THEN @ + 1 ELSE @,
                       ![e].slots = [ExpireSlots(@) EXCEPT
                                       ![j] = [id |-> slot.id, g |-> g2, s |-> s2,
                                               st |-> row.status]]]
          /\ obs' = [obs EXCEPT
                       !.passed = passed,
                       !.open = IF Resolved(r) THEN @ \ {<<s, kind>>} ELSE @,
                       !.rewritten = IF r = "DONE" /\ held THEN @ \cup {<<s, kind>>} ELSE @,
                       !.late = IF r = "DONE" THEN ObsLate(e, passed) ELSE @]

\* A visit of an occupied slot: the STOPPED check, get(Simulation, minigrid_id), and
\* the poll of the grid handle if the slot holds one.
SchedVisitPoll(e) ==
  /\ sch[e].pc = "visit"
  /\ sch[e].i <= NUM_SLOTS
  /\ sch[e].slots[sch[e].i].id # 0
  /\ LET j == sch[e].i
         slot == sch[e].slots[j]
         c == Fresh(sch[e].cache, e)
         st == IF slot.st = "EXPIRED" \/ ~Held(e, slot.id)
               THEN sims[<<e, slot.id>>].status ELSE slot.st
     IN IF c.status = "STOPPED"
        THEN /\ sch' = [sch EXCEPT ![e].pc = "done", ![e].cache = c]
             /\ UNCHANGED <<sims, obs, scn>>
        ELSE IF st = "NONE"
        THEN /\ sch' = [sch EXCEPT ![e].pc = "dead", ![e].cache = c]
             /\ UNCHANGED <<sims, obs, scn>>
        ELSE \E r \in PollOutcome :
               /\ (slot.g /\ r = "ERROR") => MayPollFail
               /\ (slot.g /\ r = "PENDING") => MayPollPending
               /\ r = "TIMEOUT" => (slot.g /\ MayTimeout)
               /\ IF r = "TIMEOUT"
                  THEN TimedOut(e)
                  ELSE /\ scn' = ChargedPending(ChargedPoll(slot.g /\ r = "ERROR"),
                                                slot.g /\ r = "PENDING")
                       /\ Polled(e, j, "grid", IF slot.g THEN r ELSE "PENDING", st, c,
                                 ObsCheck(e, c), TRUE)
  /\ UNCHANGED <<exps, clusters, startReq, stopReq, orch, cf, ig, rp>>

\* The poll of the supply handle, in the same visit.
SchedPollSupply(e) ==
  /\ sch[e].pc = "poll_supply"
  /\ LET j == sch[e].i IN
       \E r \in PollOutcome :
         /\ r = "ERROR" => MayPollFail
         /\ r = "PENDING" => MayPollPending
         /\ r = "TIMEOUT" => MayTimeout
         /\ IF r = "TIMEOUT"
            THEN TimedOut(e)
            ELSE /\ scn' = ChargedPending(ChargedPoll(r = "ERROR"), r = "PENDING")
                 /\ Polled(e, j, "supply", r, sch[e].slots[j].st, sch[e].cache,
                           obs.passed, FALSE)
  /\ UNCHANGED <<exps, clusters, startReq, stopReq, orch, cf, ig, rp>>

\* Both handles are gone: the slot is emptied, executed_simulations += 1, and the
\* status becomes FINISHED if the session holds RUNNING for it.
SchedFinish(e) ==
  /\ sch[e].pc = "finish"
  /\ LET j == sch[e].i
         s == <<e, sch[e].slots[j].id>>
         st == sch[e].slots[j].st
     IN IF RowGone(e, s)
        THEN /\ sch' = [sch EXCEPT ![e].pc = "dead"]
             /\ sims' = sims
        ELSE /\ sims' = IF st = "RUNNING" THEN [Flushed(e) EXCEPT ![s].status = "FINISHED"]
                        ELSE Flushed(e)
             /\ sch' = [sch EXCEPT
                          ![e].cache = Expired, ![e].dirty = {}, ![e].pc = "visit",
                          ![e].i = @ + 1, ![e].executed_simulations = @ + 1,
                          ![e].slots = [ExpireSlots(@) EXCEPT ![j] = SlotEmpty]]
  /\ UNCHANGED <<scn, exps, clusters, startReq, stopReq, orch, cf, ig, rp, obs>>

\* After the last slot: the bulk refill when every slot is empty, simulations remain
\* and the status read is not STOPPED; NUM_SIM = min(NUM_SLOTS, remaining).
NumSimNone(remaining) == 0

\* NUM_SIM = min(NUM_SLOTS, db_exploration.minigrids_found - executed_simulations)
NumSim(remaining) == Min(NUM_SLOTS, remaining)

SchedBulk(e) ==
  /\ sch[e].pc = "visit"
  /\ sch[e].i > NUM_SLOTS
  /\ LET empty == AllEmpty(sch[e].slots)
         c == IF empty THEN Fresh(sch[e].cache, e) ELSE sch[e].cache
         remaining == c.minigrids_found - sch[e].executed_simulations
         refill == empty /\ remaining > 0 /\ c.status # "STOPPED"
         NUM_SIM == IF refill THEN NumSim(remaining) ELSE 0
     IN /\ \E T \in Limit(IF refill THEN PendingView(e) ELSE {}, NUM_SIM) :
             sch' = [sch EXCEPT ![e].cache = c, ![e].i = 1,
                                ![e].pc = IF refill THEN "bulk" ELSE "loop",
                                ![e].db_simulations = IF refill THEN SetToSeq(T) ELSE @]
        /\ obs' = [obs EXCEPT !.passed = IF refill THEN ObsCheck(e, c) ELSE @]
  /\ UNCHANGED <<scn, exps, sims, clusters, startReq, stopReq, orch, cf, ig, rp>>

\* The submission of simulation s for slot j inside the bulk refill.
BulkSubmit(e, j, s, ok) ==
  IF ok
  THEN /\ sch' = [sch EXCEPT
                    ![e].i = @ + 1, ![e].dirty = @ \cup {s}, ![e].db_simulation = s[2],
                    ![e].slots[j] = [id |-> s[2], g |-> TRUE, s |-> TRUE,
                                     st |-> "RUNNING"]]
       /\ sims' = sims
       /\ obs' = [ObsSubmit(obs, s) EXCEPT
                    !.open = @ \cup Handles(s),
                    !.late = ObsLate(e, obs.passed),
                    !.unchecked = IF j > 1 THEN @ \cup {e} ELSE @]
  ELSE IF RowGone(e, s)
  THEN /\ sch' = [sch EXCEPT ![e].pc = "dead"]
       /\ obs' = ObsSubmit(obs, s)
       /\ sims' = sims
  ELSE /\ sims' = [Flushed(e) EXCEPT ![s].status = "ERROR"]
       /\ sch' = [sch EXCEPT
                    ![e].i = @ + 1, ![e].dirty = {}, ![e].cache = Expired,
                    ![e].db_simulation = s[2],
                    ![e].slots = ExpireSlots(@),
                    ![e].executed_simulations = @ + 1]
       /\ obs' = [ObsSubmit(obs, s) EXCEPT
                    !.late = ObsLate(e, obs.passed),
                    !.unchecked = IF j > 1 THEN @ \cup {e} ELSE @]

\* One simulation of the bulk refill: no STOPPED check; status = RUNNING stays in
\* the session (no commit) on success, ERROR is committed on a submit error.
SchedBulkIter(e) ==
  /\ sch[e].pc = "bulk"
  /\ sch[e].i <= Len(sch[e].db_simulations)
  /\ LET j == sch[e].i
         s == sch[e].db_simulations[j]
     IN \E okG, okS, raised \in BOOLEAN :
          /\ ~(okG /\ okS) => MaySubmitFail
          /\ raised => (MayTimeout /\ okG /\ okS)
          /\ IF raised
             THEN TimedOut(e)
             ELSE /\ scn' = ChargedSubmit(~(okG /\ okS))
                  /\ BulkSubmit(e, j, s, okG /\ okS)
  /\ UNCHANGED <<exps, clusters, startReq, stopReq, orch, cf, ig, rp>>

\* if minigrids_found - executed_simulations <= NUM_SLOTS: last_bucket = True
SchedBulkEnd(e) ==
  /\ sch[e].pc = "bulk"
  /\ sch[e].i > Len(sch[e].db_simulations)
  /\ LET c == Fresh(sch[e].cache, e) IN
       sch' = [sch EXCEPT
                 ![e].cache = c, ![e].pc = "loop",
                 ![e].last_bucket =
                    @ \/ (c.minigrids_found - sch[e].executed_simulations <= NUM_SLOTS)]
  /\ UNCHANGED <<scn, exps, sims, clusters, startReq, stopReq, orch, cf, ig, rp, obs>>

\* ---- WorkerProcessSimulationResults (the Result Processor) --------------------
ToProcess(e) == SimsWithStatus(e, {"FINISHED", "ERROR"})

\* select(Cluster).where(Cluster.cluster_id == simulation.cluster_id)
ClustersWithId(cid) == {c \in SimIds : clusters[c].cluster_id = cid}

\* The update that sets no field.
SetNoResults(cl) == cl

\* The update that also renumbers the cluster.
SetResultsAndId(cl) == [cl EXCEPT !.results = Min(@ + 1, 2), !.cluster_id = @ + 1]

\* for field, val in updates.items(): setattr(cluster, field, val)
\* results counts the writes of the result fields (0: null, 2: more than one).
SetResults(cl) == [cl EXCEPT !.results = Min(@ + 1, 2)]

RPGet(e) ==
  /\ rp[e].pc = "get"
  /\ rp' = [rp EXCEPT ![e].pc = "wait", ![e].cache = Loaded(e)]
  /\ UNCHANGED <<scn, exps, sims, clusters, startReq, stopReq, orch, cf, ig, sch, obs>>

\* The wait loop ends on a FINISHED or ERROR simulation or on a STOPPED status in
\* the session; then the tests of minigrids_found and of STOPPED on the session's row.
RPWait(e) ==
  /\ rp[e].pc = "wait"
  /\ ToProcess(e) = {} => rp[e].cache.status = "STOPPED"
  /\ rp' = [rp EXCEPT ![e].num_processed = 0,
                      ![e].pc = IF rp[e].cache.minigrids_found = NoneVal THEN "dead"
                                ELSE IF rp[e].cache.status = "STOPPED" THEN "done"
                                ELSE "loop"]
  /\ UNCHANGED <<scn, exps, sims, clusters, startReq, stopReq, orch, cf, ig, sch, obs>>

\* The head of the main loop and its query; a pass that finds nothing to process
\* and reads nothing new from the store changes nothing.
RPLoop(e) ==
  /\ rp[e].pc = "loop"
  /\ LET c == Fresh(rp[e].cache, e)
         go == rp[e].num_processed < c.minigrids_found /\ c.status # "STOPPED"
     IN /\ (go /\ ToProcess(e) = {}) => ~rp[e].cache.valid
        /\ rp' = [rp EXCEPT ![e].cache = c,
                            ![e].todo = IF go THEN ToProcess(e) ELSE {},
                            ![e].pc = IF ~go THEN "done"
                                      ELSE IF ToProcess(e) = {} THEN "loop" ELSE "proc"]
  /\ UNCHANGED <<scn, exps, sims, clusters, startReq, stopReq, orch, cf, ig, sch, obs>>

\* One simulation of the list: the STOPPED check, then FINISHED -> PROCESSED with the
\* result fields of the matching Cluster, or ERROR -> PROCESSED_ERROR.
RPProc(e) ==
  /\ rp[e].pc = "proc"
  /\ \E s \in rp[e].todo :
       LET c == Fresh(rp[e].cache, e)
           st == sims[s].status
           rest == rp[e].todo \ {s}
           match == ClustersWithId(sims[s].cluster_id)
           back == IF rest = {} THEN "loop" ELSE "proc"
       IN IF c.status = "STOPPED"
          THEN /\ rp' = [rp EXCEPT ![e].pc = "done", ![e].cache = c, ![e].todo = {}]
               /\ UNCHANGED <<sims, clusters>>
          ELSE IF st = "NONE" \/ (st = "FINISHED" /\ Cardinality(match) # 1)
          THEN /\ rp' = [rp EXCEPT ![e].pc = "dead", ![e].cache = c, ![e].todo = {}]
               /\ UNCHANGED <<sims, clusters>>
          ELSE IF st = "FINISHED"
          THEN /\ clusters' = [k \in SimIds |->
                                 IF k \in match
                                 THEN SetResults(clusters[k])
                                 ELSE clusters[k]]
               /\ sims' = [sims EXCEPT ![s].status = "PROCESSED", ![s].project_input = TRUE]
               /\ rp' = [rp EXCEPT ![e].pc = back, ![e].cache = Expired, ![e].todo = rest,
                                   ![e].num_processed = @ + 1]
          ELSE IF st = "ERROR"
          THEN /\ sims' = [sims EXCEPT ![s].status = "PROCESSED_ERROR"]
               /\ clusters' = clusters
               /\ rp' = [rp EXCEPT ![e].pc = back, ![e].cache = Expired, ![e].todo = rest,
                                   ![e].num_processed = @ + 1]
          ELSE /\ rp' = [rp EXCEPT ![e].pc = back, ![e].cache = c, ![e].todo = rest]
               /\ UNCHANGED <<sims, clusters>>
  /\ UNCHANGED <<scn, exps, startReq, stopReq, orch, cf, ig, sch, obs>>

\* ---- the system ----------------------------------------------------------------
worker_exploration(e) ==
  \/ OrchStartClusters(e) \/ OrchAfterClusters(e) \/ OrchSpawn(e)
  \/ OrchJoinInputs(e) \/ OrchJoinOptimizer(e) \/ OrchJoinResults(e) \/ OrchFinal(e)

WorkerFindClusters(e) == CFGet(e) \/ CFIter(e)

WorkerGenerateOptimizerInputs(e) == IGGet(e) \/ IGIter(e)

WorkerRunOptimizer(e) ==
  \/ SchedGet(e) \/ SchedWait(e) \/ SchedStartupQuery(e) \/ SchedStartup(e)
  \/ SchedStartupErr(e) \/ SchedMfCheck(e) \/ SchedLoop(e)
  \/ SchedVisitRefill(e) \/ SchedRefillErr(e) \/ SchedVisitSkip(e) \/ SchedVisitPoll(e)
  \/ SchedPollSupply(e) \/ SchedFinish(e)
  \/ SchedBulk(e) \/ SchedBulkIter(e) \/ SchedBulkEnd(e)

WorkerProcessSimulationResults(e) == RPGet(e) \/ RPWait(e) \/ RPLoop(e) \/ RPProc(e)

\* The five threads of exploration e.
Pipeline(e) ==
  \/ worker_exploration(e)
  \/ WorkerFindClusters(e)
  \/ WorkerGenerateOptimizerInputs(e)
  \/ WorkerRunOptimizer(e)
  \/ WorkerProcessSimulationResults(e)

Start == StartCheck \/ StartDelete \/ start_exploration

Stop == \E e \in ExpIds : StopCheck(e) \/ stop_exploration(e)

Next == Start \/ Stop \/ \E e \in ExpIds : Pipeline(e)

\* One start request and one stop request at any time of the run.
Spec == Init /\ [][Next]_vars

\* As Spec, and the clustering step may return two clusters with one cluster_id.
InitDup ==
  InitWith([starts |-> 1, stops |-> 1, maxCl |-> MaxClusters, dup |-> TRUE,
            submit_errors |-> NoneVal, poll_errors |-> NoneVal,
            pending_polls |-> NoneVal, timeouts |-> 0,
            ordered |-> FALSE, sequential |-> FALSE])

SpecDup == InitDup /\ [][Next]_vars

\* Runs without a stop request, with more clusters than slots, the store returning
\* rows in insertion order, one submit failing at most, no poll returning ERROR and
\* SlotPendings polls returning PENDING at most.
InitSlots ==
  InitWith([starts |-> 1, stops |-> 0, maxCl |-> SlotClusters, dup |-> FALSE,
            submit_errors |-> SlotFailures, poll_errors |-> 0,
            pending_polls |-> SlotPendings, timeouts |-> 0,
            ordered |-> TRUE, sequential |-> FALSE])

NextSlots == Start \/ \E e \in ExpIds : Pipeline(e)

SpecSlots == InitSlots /\ [][NextSlots]_vars

\* The request handlers alone: start and stop requests racing on the store.
InitApi ==
  InitWith([starts |-> ApiStarts, stops |-> ApiStops, maxCl |-> 0, dup |-> FALSE,
            submit_errors |-> NoneVal, poll_errors |-> NoneVal,
            pending_polls |-> NoneVal, timeouts |-> 0,
            ordered |-> FALSE, sequential |-> FALSE])

NextApi == Start \/ Stop

SpecApi == InitApi /\ [][NextApi]_vars

\* Runs without a stop request in which one gateway request may time out on all
\* of its attempts and one submit may return an error value.
InitTimeout ==
  InitWith([starts |-> 1, stops |-> 0, maxCl |-> TimeoutClusters, dup |-> FALSE,
            submit_errors |-> TimeoutFailures, poll_errors |-> 0, pending_polls |-> NoneVal,
            timeouts |-> Timeouts, ordered |-> TRUE, sequential |-> FALSE])

SpecTimeout == InitTimeout /\ [][NextSlots]_vars

\* A further start request arriving at any moment of the run of the first
\* exploration, which no one stops; the threads of a later exploration are not
\* scheduled.
InitRestart ==
  InitWith([starts |-> RestartStarts, stops |-> 0, maxCl |-> RestartClusters,
            dup |-> FALSE, submit_errors |-> RestartFailures, poll_errors |-> 0,
            pending_polls |-> NoneVal,
            timeouts |-> 0, ordered |-> TRUE, sequential |-> FALSE])

NextRestart == Start \/ Pipeline(1)

SpecRestart == InitRestart /\ [][NextRestart]_vars

\* The client that starts an exploration, stops it, and starts the next one.
InitClient ==
  InitWith([starts |-> RestartStarts, stops |-> ClientStops,
            maxCl |-> RestartClusters, dup |-> FALSE, submit_errors |-> RestartFailures,
            poll_errors |-> 0, pending_polls |-> NoneVal, timeouts |-> 0,
            ordered |-> TRUE, sequential |-> TRUE])

NextClient == Start \/ Stop \/ Pipeline(1)

SpecClient == InitClient /\ [][NextClient]_vars

\* The clustering phase of exploration e: the orchestrator up to its assert and
\* the Cluster Finder.
Clustering(e) == OrchStartClusters(e) \/ OrchAfterClusters(e) \/ WorkerFindClusters(e)

\* The sequential client starts an exploration, stops it and starts the next one,
\* which no one stops; of the first exploration the clustering phase is scheduled,
\* of the second every thread.
InitOverlap ==
  InitWith([starts |-> OverlapStarts, stops |-> OverlapStops,
            maxCl |-> OverlapClusters, dup |-> FALSE, submit_errors |-> OverlapFailures,
            poll_errors |-> 0, pending_polls |-> NoneVal, timeouts |-> 0,
            ordered |-> TRUE, sequential |-> TRUE])

NextOverlap == Start \/ Stop \/ Clustering(1) \/ Pipeline(2)

SpecOverlap == InitOverlap /\ [][NextOverlap]_vars

\* Every thread that can take a step eventually takes one.
ThreadsRun ==
  \A e \in ExpIds :
    /\ WF_vars(worker_exploration(e))
    /\ WF_vars(WorkerFindClusters(e))
    /\ WF_vars(WorkerGenerateOptimizerInputs(e))
    /\ WF_vars(WorkerRunOptimizer(e))
    /\ WF_vars(WorkerProcessSimulationResults(e))

\* Fairly scheduled runs without a stop request whose clustering result may hold
\* the same cluster_id twice.
InitDupFair ==
  InitWith([starts |-> 1, stops |-> 0, maxCl |-> DupClusters, dup |-> TRUE,
            submit_errors |-> DupFailures, poll_errors |-> 0, pending_polls |-> NoneVal, timeouts |-> 0,
            ordered |-> TRUE, sequential |-> FALSE])

SpecDupFair == InitDupFair /\ [][NextSlots]_vars /\ ThreadsRun

\* A checker that is polled again and again does not answer PENDING for ever: the
\* gateway finishes every job it accepted.
GatewayAnswers ==
  \A e \in ExpIds :
    SF_vars((SchedVisitPoll(e) \/ SchedPollSupply(e)) /\ obs'.open # obs.open)

\* Fairly scheduled runs without a stop request, with a gateway that answers.
InitFair ==
  InitWith([starts |-> 1, stops |-> 0, maxCl |-> FairClusters, dup |-> FALSE,
            submit_errors |-> FairFailures, poll_errors |-> 0, pending_polls |-> NoneVal, timeouts |-> 0,
            ordered |-> TRUE, sequential |-> FALSE])

SpecFair == InitFair /\ [][NextSlots]_vars /\ ThreadsRun /\ GatewayAnswers

\* ---- properties -------------------------------------------------------------
\* C1: whatever the interleaving of concurrent start requests (check, delete and
\* create being separate store operations), at most one Exploration is RUNNING.
AtMostOneRunning == Cardinality(RunningExplorations) <= 1

\* C2: once an Exploration's status is STOPPED it stays STOPPED: no later write, the
\* orchestrator's final status write included, replaces it.
StoppedStaysStopped ==
  [][\A e \in ExpIds : exps[e].status = "STOPPED" => exps'[e].status = "STOPPED"]_vars

Processed(e) == \A s \in SimsOf(e) : sims[s].status \in {"PROCESSED", "PROCESSED_ERROR"}

\* C3: every Simulation of an Exploration whose status is FINISHED or ERROR is
\* PROCESSED or PROCESSED_ERROR (stated for the explorations no stop request has
\* touched, whose FINISHED or ERROR is the orchestrator's verdict on a full run).
CompletedMeansProcessed ==
  \A e \in ExpIds :
    (exps[e].status \in {"FINISHED", "ERROR"} /\ e \notin obs.stopped) => Processed(e)

\* The gateway failed every simulation of e: each one carries an error status.
AllFailed(e) ==
  /\ SimsOf(e) # {}
  /\ \A s \in SimsOf(e) : sims[s].status \in {"ERROR", "PROCESSED_ERROR"}

\* The orchestrator of e, in a run without a stop request, persists its final status.
FinalWrite(e) == orch[e].pc = "final" /\ orch'[e].pc = "done" /\ e \notin obs.stopped

\* C4: the final status the orchestrator persists is ERROR iff every Simulation is
\* PROCESSED_ERROR and FINISHED otherwise; a run whose simulations all failed at the
\* gateway ends ERROR, a run with a PROCESSED simulation ends FINISHED.
FinalStatusRule ==
  [][\A e \in ExpIds : FinalWrite(e) =>
       /\ exps'[e].status = "ERROR" <=>
            \A s \in SimsOf(e) : sims[s].status = "PROCESSED_ERROR"
       /\ exps'[e].status \in {"ERROR", "FINISHED"}
       /\ AllFailed(e) => exps'[e].status = "ERROR"
       /\ (\E s \in SimsOf(e) : sims[s].status = "PROCESSED") =>
            exps'[e].status = "FINISHED"]_vars

\* C5: an exploration that is never stopped and has at least one cluster does not
\* come to rest before every Simulation is PROCESSED or PROCESSED_ERROR and its own
\* status is FINISHED or ERROR (a state where no step of its threads is enabled is
\* where a fairly scheduled run stays forever).
NeverStoppedCompletes ==
  \A e \in ExpIds :
    (Created(e) /\ e \notin obs.stopped /\ cf[e].result /\ cf[e].n >= 1
       /\ ~ENABLED Pipeline(e)) =>
      /\ Cardinality(SimsOf(e)) = cf[e].n
      /\ Processed(e)
      /\ exps[e].status \in {"FINISHED", "ERROR"}

\* Simulations of e that are RUNNING (in the store or in the Scheduler's session)
\* while a grid or supply checker obtained for them is unresolved.
RunningWithHandle(e) ==
  {s \in SimsOf(e) :
     /\ sims[s].status = "RUNNING" \/ s \in sch[e].dirty
     /\ Handles(s) \cap obs.open # {}}

\* C6: at most NUM_SLOTS simulations are RUNNING with an unresolved grid or supply
\* poll handle, whichever fill path admitted them.
SlotBound == \A e \in ExpIds : Cardinality(RunningWithHandle(e)) <= NUM_SLOTS

\* Every slot is taken while a further simulation waits as PENDING.
SlotsFullWitness ==
  \E e \in ExpIds :
    /\ Cardinality(RunningWithHandle(e)) = NUM_SLOTS
    /\ SimsWithStatus(e, {"PENDING"}) \ sch[e].dirty # {}

\* C7: once the status is STOPPED while simulations are in flight, the Scheduler
\* makes no submit, fills no slot and writes no grid_results or supply_results after
\* a STOPPED check it makes from then on.
NoActAfterStoppedCheck == obs.late \cap obs.inflight = {}

\* C8: after a stop request has set the status to STOPPED the exploration does not
\* come to rest before each of its workers has returned and the orchestrator's
\* joins have completed.
StoppedWorkersReturn ==
  \A e \in ExpIds :
    (exps[e].status = "STOPPED" /\ orch[e].pc # "none" /\ ~ENABLED Pipeline(e)) =>
      /\ \A w \in {cf[e], ig[e], sch[e], rp[e]} : w.pc = "idle" \/ Ended(w)
      /\ Ended(orch[e])

Rank(st) ==
  CASE st = "PENDING" -> 1
    [] st = "RUNNING" -> 2
    [] st \in {"FINISHED", "ERROR"} -> 3
    [] st \in {"PROCESSED", "PROCESSED_ERROR"} -> 4

\* C9: a Simulation's status never moves to an earlier stage of PENDING -> RUNNING
\* -> (FINISHED | ERROR) -> (PROCESSED | PROCESSED_ERROR), and a PROCESSED or
\* PROCESSED_ERROR status never changes.
StatusOnlyForward ==
  [][\A s \in SimIds :
       (sims[s].status # "NONE" /\ sims'[s].status # "NONE") =>
         /\ Rank(sims'[s].status) >= Rank(sims[s].status)
         /\ Rank(sims[s].status) = 4 => sims'[s].status = sims[s].status]_vars

\* No two Simulation rows of one exploration carry the same cluster_id.
UniquePairs ==
  \A s1, s2 \in SimIds :
    (sims[s1].status # "NONE" /\ sims[s2].status # "NONE" /\ s1[1] = s2[1]
       /\ sims[s1].cluster_id = sims[s2].cluster_id) => s1 = s2

\* The Input Generator of e attempts the insert of a pair that exists.
DuplicateAttempt(e) ==
  /\ ig[e].pc = "loop"
  /\ ig'[e].i = ig[e].i + 1
  /\ PairExists(e, ClusterIdAt(e, ig[e].i + 1))

\* C10: no two Simulations share (exploration_id, cluster_id); the attempt to create
\* a second Simulation for an existing pair fails and adds no record.
UniqueSimulationPairs ==
  [][/\ UniquePairs'
     /\ \A e \in ExpIds : DuplicateAttempt(e) => (ig'[e].pc = "dead" /\ sims' = sims)]_vars

\* The Input Generator has been refused a duplicate and the first record is there.
DuplicateRefusedWitness ==
  \E e \in ExpIds : ig[e].pc = "dead" /\ cf[e].dup /\ Cardinality(SimsOf(e)) = cf[e].n - 1

\* C11: grid_results and supply_results are each written at most once per
\* Simulation, independently and in either order: no write targets a field that
\* already holds a value.
ResultsWrittenOnce == obs.rewritten = {}

\* supply_results is written while the grid checker of the same Simulation is
\* still unresolved (and the other order is GridFirst).
SupplyFirst(s) ==
  sims[s].supply_results /\ ~sims[s].grid_results /\ <<s, "grid">> \in obs.open

GridFirst(s) ==
  sims[s].grid_results /\ ~sims[s].supply_results /\ <<s, "supply">> \in obs.open

ResultsWrittenWitness == \E s, u \in SimIds : s # u /\ SupplyFirst(s) /\ GridFirst(u)

\* The Input Generator of e has returned and its last look at the Exploration did
\* not show STOPPED.
IGReturned(e) ==
  ig[e].pc = "done" /\ ~(ig[e].cache.valid /\ ig[e].cache.status = "STOPPED")

SimulationsOfCluster(e, k) ==
  {s \in SimsOf(e) : sims[s].cluster_id = ClusterIdAt(e, k)}

OneSimulationPerCluster(e) ==
  /\ \A k \in 1..cf[e].n : Cardinality(SimulationsOfCluster(e, k)) = 1
  /\ Cardinality(SimsOf(e)) = exps[e].minigrids_found

\* C12: when the Input Generator returns without having observed STOPPED, there
\* is exactly one Simulation for each cluster of the clustering result, and the
\* number of Simulations equals Exploration.minigrids_found.
SimulationPerCluster ==
  [][\A e \in ExpIds :
       (ig[e].pc # "done" /\ IGReturned(e)') => OneSimulationPerCluster(e)']_vars

SimulationPerClusterWitness ==
  \E e \in ExpIds :
    IGReturned(e) /\ cf[e].n = MaxClusters /\ Cardinality(SimsOf(e)) = MaxClusters

\* The run of e is over: no step of any of its threads is enabled.
AtRest(e) == Created(e) /\ ~ENABLED Pipeline(e)

\* The submit of exactly one Simulation has failed at the gateway.
OneSubmitFailed == scn.submit_errors = SlotFailures - 1

\* C13: in an unstopped run where the gateway errors on the submit of one
\* Simulation and succeeds for all others, the run ends with that Simulation
\* PROCESSED_ERROR, every other PROCESSED and the Exploration FINISHED, and the
\* Scheduler is not terminated by the error.
OneSubmitErrorOutcome ==
  \A e \in ExpIds :
    (AtRest(e) /\ cf[e].result /\ cf[e].n >= 2 /\ OneSubmitFailed) =>
      /\ sch[e].pc = "done"
      /\ Cardinality(SimsOf(e)) = cf[e].n
      /\ Cardinality(SimsWithStatus(e, {"PROCESSED_ERROR"})) = 1
      /\ Cardinality(SimsWithStatus(e, {"PROCESSED"})) = cf[e].n - 1
      /\ exps[e].status = "FINISHED"

\* No submit has failed at the gateway (and SpecSlots has no poll error).
NoGatewayFailure == scn.submit_errors = SlotFailures /\ scn.poll_errors = 0

\* C14: an unstopped run in which every submit succeeds and every poll ends DONE
\* does not come to rest before all Simulations are PROCESSED, the Exploration is
\* FINISHED and minigrids_found is the number of clusters handed to the Input
\* Generator.
CleanRunCompletes ==
  \A e \in ExpIds :
    (AtRest(e) /\ cf[e].result /\ cf[e].n >= 1 /\ NoGatewayFailure) =>
      /\ Cardinality(SimsWithStatus(e, {"PROCESSED"})) = cf[e].n
      /\ exps[e].status = "FINISHED"
      /\ exps[e].minigrids_found = cf[e].n

\* A gateway request of e's Scheduler times out in this step.
RequestTimesOut(e) == scn'.timeouts # scn.timeouts /\ sch'[e] # sch[e]

\* C15: a request timeout on a submit or on a poll reaches the Scheduler as an
\* error value, never as an exception: the Scheduler keeps running after it.
TimeoutIsAnErrorValue ==
  [][\A e \in ExpIds : RequestTimesOut(e) => sch'[e].pc # "dead"]_vars

\* A start request runs its query for a RUNNING exploration in this step.
StartChecks == startReq'.idle < startReq.idle

\* C16: a start request that finds an Exploration RUNNING is answered with a
\* conflict and goes no further: no Exploration is created, no Cluster or Simulation
\* is deleted and no worker thread is started.
StartWhileRunningRejected ==
  [][(StartChecks /\ RunningExplorations # {}) =>
       /\ obs'.conflicts > 0
       /\ startReq'.checked = startReq.checked
       /\ startReq'.deleted = startReq.deleted
       /\ exps' = exps
       /\ sims' = sims
       /\ clusters' = clusters
       /\ orch' = orch]_vars

\* The second start was refused while the first exploration, RUNNING, had Cluster
\* and Simulation records, and they are still there.
StartRejectedWitness ==
  /\ obs.conflicts > 0
  /\ startReq = [idle |-> 0, checked |-> 0, deleted |-> 0]
  /\ exps[1].status = "RUNNING"
  /\ ~Created(2)
  /\ Cardinality(SimsOf(1)) = RestartClusters
  /\ \A k \in 1..RestartClusters : clusters[<<1, k>>] # NoCluster

\* A stop request runs its lookup in this step.
StopLooksUp == stopReq'.left < stopReq.left

LastStopped ==
  \E e \in obs.stopped : Created(e) /\ \A f \in ExpIds : Created(f) => f <= e

Completed(e) ==
  /\ e \notin obs.stopped
  /\ orch[e].pc = "done"
  /\ exps[e].status \in {"FINISHED", "ERROR"}

\* C19: a step of a start request leaves the Cluster and Simulation records of
\* every completed exploration as they are.
StartKeepsCompletedRecords ==
  [][startReq' # startReq =>
       \A s \in SimIds : Completed(s[1]) => (sims'[s] = sims[s] /\ clusters'[s] = clusters[s])]_vars

\* The Input Generator of e has ended on the constraint violation and the
\* Scheduler waits, every slot empty, for PENDING simulations while the
\* Exploration is RUNNING.
Starved(e) ==
  /\ ig[e].pc = "dead"
  /\ exps[e].status = "RUNNING"
  /\ ~Ended(sch[e])
  /\ AllEmpty(sch[e].slots)
  /\ SimsWithStatus(e, {"PENDING"}) = {}

\* C20: when the Input Generator fails on a duplicate (exploration_id, cluster_id)
\* the failure reaches the orchestrator as a failed phase: the Scheduler does not
\* wait forever for simulations that are never created, and the Exploration does
\* not stay RUNNING forever.
DuplicateFailureSurfaces == \A e \in ExpIds : []<>(~Starved(e))

\* The checkers of s the Scheduler still holds unresolved.
HeldHandles(s) == Handles(s) \cap obs.open

\* The Scheduler of e is between two slot visits (not inside the poll branch).
BetweenVisits(e) == sch[e].pc \notin {"poll_supply", "finish"}

\* C21: once the visit that polled it is over, a Simulation whose persisted status
\* is FINISHED or ERROR has no unresolved checker in the Scheduler (stated for the
\* explorations no stop request has touched): a poll ERROR clears both handles
\* and releases the slot in the same visit.
NoHandleAfterPollingEnded ==
  \A s \in SimIds :
    (s[1] \notin obs.stopped /\ BetweenVisits(s[1])
       /\ sims[s].status \in {"FINISHED", "ERROR"}) =>
      HeldHandles(s) = {}

\* The Result Processor of e has returned and its last look at the Exploration did
\* not show STOPPED.
RPReturned(e) ==
  rp[e].pc = "done" /\ ~(rp[e].cache.valid /\ rp[e].cache.status = "STOPPED")

\* C22: the Result Processor counts each Simulation at most once, so its count
\* never exceeds the number of Simulations, and when it returns without having
\* observed STOPPED all minigrids_found Simulations are PROCESSED or PROCESSED_ERROR
\* (stated for the explorations no stop request has touched).
ProcessedCountedOnce ==
  \A e \in ExpIds :
    e \notin obs.stopped =>
      /\ rp[e].num_processed <= Cardinality(SimsOf(e))
      /\ RPReturned(e) =>
           /\ Processed(e)
           /\ Cardinality(SimsOf(e)) = exps[e].minigrids_found

\* The Scheduler of e has returned and its last look at the Exploration did not
\* show STOPPED.
SchedReturned(e) ==
  sch[e].pc = "done" /\ ~(sch[e].cache.valid /\ sch[e].cache.status = "STOPPED")

Drained(e) ==
  /\ AllEmpty(sch[e].slots)
  /\ SimsWithStatus(e, {"PENDING", "RUNNING"}) = {}

\* C23: when the Scheduler returns without having observed STOPPED, every slot is
\* empty and no Simulation of the exploration is persisted as PENDING or RUNNING.
SchedulerReturnsDrained ==
  [][\A e \in ExpIds : (sch[e].pc # "done" /\ SchedReturned(e)') => Drained(e)']_vars

SchedulerReturnsWitness ==
  \E e \in ExpIds :
    /\ SchedReturned(e)
    /\ sch[e].executed_simulations = MaxClusters
    /\ Cardinality(SimsWithStatus(e, {"FINISHED"})) >= 1
    /\ Drained(e)
\* C24: in a fairly scheduled, unstopped run with an answering gateway every
\* Simulation the Input Generator created with status PENDING is eventually submitted
\* by the Scheduler (its status leaves PENDING), whenever it was created.
NoPendingStarved ==
  \A s \in SimIds : (sims[s].status = "PENDING") ~> (sims[s].status # "PENDING")

\* The bulk refill picks up a simulation after the last-bucket flag was set.
PickedAfterLastBucket ==
  \E e \in ExpIds :
    /\ sch[e].pc = "bulk"
    /\ sch[e].last_bucket
    /\ sch[e].i = 1
    /\ Len(sch[e].db_simulations) >= 1

\* The step of the Scheduler of e that deals with the failed submit of simulation s:
\* the branch after the error test in the startup fill and in the single-slot
\* refill, and the iteration of the bulk refill that keeps no checker.
FailedSubmitStep(e, s) ==
  /\ s[1] = e
  /\ sch'[e] # sch[e]
  /\ IF sch[e].pc \in {"startup_err", "refill_err"}
     THEN s[2] = sch[e].db_simulation
     ELSE /\ sch[e].pc = "bulk"
          /\ sch[e].i <= Len(sch[e].db_simulations)
          /\ s = sch[e].db_simulations[sch[e].i]
          /\ sch'[e].i = sch[e].i + 1
          /\ HeldHandles(s)' = {}

\* C25: when a submit of a simulation failed (startup fill, single-slot refill or
\* bulk refill), the step that deals with it persists status ERROR, leaves the
\* simulation out of every slot and adds exactly one to the executed count.
FailedSubmitRecorded ==
  [][\A s \in SimIds :
       FailedSubmitStep(s[1], s) =>
         /\ sims'[s].status = "ERROR"
         /\ ~InSlot(s[1], s)'
         /\ sch'[s[1]].executed_simulations = sch[s[1]].executed_simulations + 1]_vars

\* The startup fill has just recorded a failed submit and goes on with the next
\* simulation.
FailedSubmitWitness ==
  \E e \in ExpIds :
    /\ sch[e].pc = "startup"
    /\ sch[e].i = 2
    /\ sch[e].executed_simulations = 1
    /\ sims[sch[e].db_simulations[1]].status = "ERROR"
    /\ ~InSlot(e, sch[e].db_simulations[1])

\* The Scheduler of e found that a submit of its simulation db_simulation failed
\* and has not yet written ERROR.
SubmitFailed(e) == sch[e].pc \in {"startup_err", "refill_err"}

\* C26: a simulation whose submit failed is never persisted as RUNNING: no other
\* worker or reader can observe it with status RUNNING before the ERROR write.
FailedSubmitNeverRunning ==
  \A e \in ExpIds :
    SubmitFailed(e) => sims[<<e, sch[e].db_simulation>>].status # "RUNNING"

BothResults(s) == sims[s].grid_results /\ sims[s].supply_results

\* The store's status of simulation s becomes FINISHED in this step.
FinishedWritten(s) == sims[s].status # "FINISHED" /\ sims'[s].status = "FINISHED"

\* C27: every Simulation with status FINISHED or PROCESSED has both grid_results and
\* supply_results, and FINISHED is written only over status RUNNING and with both
\* results stored (both polls returned DONE).
FinishedHasBothResults ==
  /\ [](\A s \in SimIds : sims[s].status \in {"FINISHED", "PROCESSED"} => BothResults(s))
  /\ [][\A s \in SimIds :
          FinishedWritten(s) => (sims[s].status = "RUNNING" /\ BothResults(s)')]_vars

\* One simulation is PROCESSED and another is FINISHED, each with both results.
FinishedWitness ==
  \E s, t \in SimIds :
    /\ sims[s].status = "PROCESSED" /\ BothResults(s)
    /\ sims[t].status = "FINISHED" /\ BothResults(t)

\* C28: whenever the Scheduler is about to visit a slot (not in the middle of a
\* visit), a slot without a simulation id holds no poll handle, an occupied slot
\* holds at least one unresolved handle, and no simulation id is in two slots.
SlotsWellFormed ==
  \A e \in ExpIds :
    BetweenVisits(e) =>
      \A j \in SlotIdx :
        LET slot == sch[e].slots[j] IN
          /\ slot.id = 0 => (~slot.g /\ ~slot.s)
          /\ slot.id # 0 => (slot.g \/ slot.s)
          /\ slot.id # 0 => \A k \in SlotIdx \ {j} : sch[e].slots[k].id # slot.id

\* At a visit: one slot with one handle left, one with both, one empty.
SlotsWellFormedWitness ==
  \E e \in ExpIds : \E j, k, l \in SlotIdx :
    /\ sch[e].pc = "visit"
    /\ sch[e].slots[j].id # 0 /\ sch[e].slots[j].g # sch[e].slots[j].s
    /\ sch[e].slots[k].id # 0 /\ sch[e].slots[k].g /\ sch[e].slots[k].s
    /\ sch[e].slots[l].id = 0

\* The thread of worker w is over, as join() sees it.
Joined(w) == w.pc \in {"done", "dead"}

Started(w) == w.pc # "idle"

\* C29: the Input Generator, the Scheduler and the Result Processor are started only
\* after the Cluster Finder is over with a clustering result and clusters_found_at is
\* written (never if it returned none); optimizer_inputs_generated_at is written only
\* after the Input Generator is over, optimizer_finished_at only after the Scheduler
\* is over, the final status only after the Result Processor is over, in that order.
OrchestrationOrder ==
  \A e \in ExpIds :
    /\ (Started(ig[e]) \/ Started(sch[e]) \/ Started(rp[e])) =>
         (Joined(cf[e]) /\ cf[e].result /\ exps[e].clusters_found_at)
    /\ exps[e].optimizer_inputs_generated_at =>
         (Joined(ig[e]) /\ exps[e].clusters_found_at)
    /\ exps[e].optimizer_finished_at =>
         (Joined(sch[e]) /\ exps[e].optimizer_inputs_generated_at)
    /\ orch[e].pc \in {"final", "done"} =>
         (Joined(rp[e]) /\ exps[e].optimizer_finished_at)

\* A run whose orchestrator wrote the three timestamps and the final status.
OrchestrationWitness ==
  \E e \in ExpIds :
    /\ orch[e].pc = "done"
    /\ exps[e].status \in {"FINISHED", "ERROR"}
    /\ exps[e].clusters_found_at
    /\ exps[e].optimizer_inputs_generated_at
    /\ exps[e].optimizer_finished_at
    /\ rp[e].pc = "done" /\ sch[e].pc = "done" /\ ig[e].pc = "done"

\* The store's status of exploration e becomes FINISHED or ERROR in this step.
FinalStatusWritten(e) ==
  /\ exps'[e].status \in {"FINISHED", "ERROR"}
  /\ exps'[e].status # exps[e].status

\* C30: the status of an Exploration becomes FINISHED or ERROR only by the final
\* write of its orchestrator, with the Input Generator, the Scheduler and the Result
\* Processor all over, and at most once: it was neither FINISHED nor ERROR before and
\* the orchestrator never writes again; no worker's step writes either value.
FinalStatusOnceByOrchestrator ==
  [][\A e \in ExpIds :
       /\ FinalStatusWritten(e) =>
            /\ orch[e].pc = "final" /\ orch'[e].pc = "done"
            /\ Joined(ig[e]) /\ Joined(sch[e]) /\ Joined(rp[e])
            /\ exps[e].status \notin {"FINISHED", "ERROR"}
            /\ UNCHANGED <<cf, ig, sch, rp>>
       /\ orch[e].pc = "done" => orch'[e].pc = "done"]_vars

\* The orchestrator has written ERROR for a run whose simulations all failed.
FinalStatusWitness ==
  \E e \in ExpIds :
    /\ orch[e].pc = "done"
    /\ exps[e].status = "ERROR"
    /\ SimsOf(e) # {}
    /\ \A s \in SimsOf(e) : sims[s].status = "PROCESSED_ERROR"

\* The simulations of the exploration of Cluster k that carry its cluster_id.
SimulationsOfClusterRow(k) ==
  {s \in SimsOf(k[1]) : sims[s].cluster_id = clusters[k].cluster_id}

\* C31: the result fields of a Cluster are null unless the Result Processor has
\* processed the FINISHED simulation of that cluster (now PROCESSED), they are never
\* written a second time, and they are null for a cluster whose simulation ended
\* PROCESSED_ERROR.
ClusterResultsWrittenOnce ==
  \A k \in SimIds :
    clusters[k].cluster_id # NoneVal =>
      /\ clusters[k].results <= 1
      /\ clusters[k].results = 1 <=>
           \E s \in SimulationsOfClusterRow(k) : sims[s].status = "PROCESSED"
      /\ (\E s \in SimulationsOfClusterRow(k) : sims[s].status = "PROCESSED_ERROR") =>
           clusters[k].results = 0

\* One cluster has its result fields, another has none and its simulation ended
\* PROCESSED_ERROR.
ClusterResultsWitness ==
  \E k, l \in SimIds :
    /\ clusters[k].results = 1
    /\ clusters[l].cluster_id # NoneVal /\ clusters[l].results = 0
    /\ \E s \in SimulationsOfClusterRow(l) : sims[s].status = "PROCESSED_ERROR"

\* minigrids_found or clusters_found of exploration e changes in this step.
CountsChange(e) ==
  \/ exps'[e].minigrids_found # exps[e].minigrids_found
  \/ exps'[e].clusters_found # exps[e].clusters_found

\* C32: minigrids_found and clusters_found are written once, by the first step of the
\* Input Generator, before any Simulation of the exploration exists, and never change
\* afterwards (also when the Input Generator then exits on STOPPED); whenever a
\* Simulation exists, minigrids_found equals the number of clusters of the
\* clustering result.
CountsWrittenOnce ==
  /\ [](\A e \in ExpIds :
         SimsOf(e) # {} =>
           (exps[e].minigrids_found = cf[e].n /\ exps[e].clusters_found = CLUSTERS_FOUND))
  /\ [][\A e \in ExpIds :
          CountsChange(e) =>
            /\ ig[e].pc = "get" /\ ig'[e].pc # "get"
            /\ SimsOf(e) = {}
            /\ exps[e].minigrids_found = NoneVal /\ exps[e].clusters_found = NoneVal
            /\ exps'[e].minigrids_found = cf[e].n]_vars

\* The Input Generator left its loop on STOPPED after its first Simulation, with
\* minigrids_found holding the size of the clustering result.
CountsWitness ==
  \E e \in ExpIds :
    /\ ig[e].pc = "done" /\ ig[e].i = 1 /\ cf[e].n = 2
    /\ Cardinality(SimsOf(e)) = 1
    /\ exps[e].status = "STOPPED"
    /\ exps[e].minigrids_found = 2

\* The columns of a Simulation that are set when it is created.
CreationColumns(row) == <<row.cluster_id, row.grid_input, row.supply_input>>

\* The step is one of the Result Processor of e / of the Scheduler of e.
RPStep(e) == rp'[e] # rp[e] /\ sch'[e] = sch[e]

SchedStep(e) == sch'[e] # sch[e] /\ rp'[e] = rp[e]

\* C33: a step that leaves a Simulation in the store changes none of cluster_id,
\* grid_input, supply_input (exploration_id is part of its key); a step that changes
\* it is a Scheduler step leaving project_input or a Result Processor step leaving
\* grid_results and supply_results; a Cluster left in the store changes only in a
\* Result Processor step, only in its result fields, and only if it carries the
\* cluster_id of a simulation that this step takes from FINISHED to PROCESSED.
WorkersKeepInputs ==
  [][/\ \A s \in SimIds :
          (sims[s].status # "NONE" /\ sims'[s].status # "NONE") =>
            /\ CreationColumns(sims'[s]) = CreationColumns(sims[s])
            /\ sims'[s] # sims[s] =>
                 IF RPStep(s[1])
                 THEN /\ sims'[s].grid_results = sims[s].grid_results
                      /\ sims'[s].supply_results = sims[s].supply_results
                 ELSE /\ SchedStep(s[1])
                      /\ sims'[s].project_input = sims[s].project_input
     /\ \A k \in SimIds :
          (clusters[k].cluster_id # NoneVal /\ clusters'[k] # clusters[k]
             /\ clusters'[k] # NoCluster) =>
            /\ clusters'[k].cluster_id = clusters[k].cluster_id
            /\ \E s \in SimIds :
                 /\ RPStep(s[1])
                 /\ sims[s].status = "FINISHED" /\ sims'[s].status = "PROCESSED"
                 /\ sims[s].cluster_id = clusters[k].cluster_id]_vars

\* A simulation the Scheduler and the Result Processor have both written, with the
\* columns of its creation in place.
WorkersKeepInputsWitness ==
  \E s \in SimIds :
    /\ sims[s].status = "PROCESSED"
    /\ sims[s].project_input /\ sims[s].grid_results /\ sims[s].supply_results
    /\ sims[s].grid_input /\ sims[s].supply_input /\ sims[s].cluster_id = s[2] - 1
    /\ clusters[s].results = 1

\* Exploration e was started after an earlier exploration was stopped.
StartedAfterStop(e) == Created(e) /\ \E p \in obs.stopped : p < e

\* The Result Processor of e is about to process the FINISHED simulation s.
AboutToProcess(e, s) ==
  /\ rp[e].pc = "proc"
  /\ s \in rp[e].todo
  /\ sims[s].status = "FINISHED"
  /\ Fresh(rp[e].cache, e).status # "STOPPED"

\* C34: in an exploration started after an earlier one was stopped, every FINISHED
\* simulation the Result Processor processes has exactly one Cluster with its
\* cluster_id, created by the Cluster Finder of the same exploration.
OneOwnClusterMatches ==
  \A e \in ExpIds : \A s \in SimIds :
    (StartedAfterStop(e) /\ AboutToProcess(e, s)) =>
      \E k \in SimIds : ClustersWithId(sims[s].cluster_id) = {k} /\ k[1] = e

\* The Cluster Finder of e returned a clustering result without any cluster.
NoCandidates(e) == cf[e].pc = "done" /\ cf[e].result /\ cf[e].n = 0

\* C35: an exploration whose clustering yields no cluster terminates: the Scheduler
\* and the Result Processor return and the Exploration leaves status RUNNING.
ZeroClustersTerminates ==
  \A e \in ExpIds :
    NoCandidates(e) ~>
      (sch[e].pc = "done" /\ rp[e].pc = "done" /\ exps[e].status # "RUNNING")

\* The step in which the Result Processor / the Scheduler of e raises the RuntimeError
\* of the minigrids_found test.
RPNoMinigrids(e) == rp[e].pc = "wait" /\ rp'[e].pc = "dead"

SchedNoMinigrids(e) ==
  /\ sch[e].pc = "startup"
  /\ sch[e].i > Len(sch[e].db_simulations)
  /\ sch'[e].pc = "dead"

\* C36: in a run with at least one cluster neither the Scheduler nor the Result
\* Processor raises the RuntimeError of the minigrids_found test.
NoMinigridsErrorNeverRaised ==
  [][\A e \in ExpIds :
       cf[e].n >= 1 => (~RPNoMinigrids(e) /\ ~SchedNoMinigrids(e))]_vars

AnalyzedNeverDecreases ==
  [][\A e \in ExpIds : minigrids_analyzed(e)' >= minigrids_analyzed(e)]_vars

====
